---- MODULE Spec2Model ----
(***************************************************************************)
(* A model of the blackjack simulator of code/blackjack_sim2.py: the shoe  *)
(* (Deck), the hand arithmetic (Hand), the playing and betting strategies, *)
(* one round of play (play_round with its nested play_single_hand and      *)
(* play_dealer) and the driver loop (run_simulation).                      *)
(*                                                                         *)
(* A card is modelled by its rank: the suit has no effect on any rule.     *)
(* The shoe is the multiset of the cards left in it. random.shuffle makes  *)
(* every order of the shoe possible, so deal() returns any card that is    *)
(* still in the shoe.                                                      *)
(*                                                                         *)
(* Money: profit is held as twice its Python value, so that the 1.5 x bet  *)
(* of a blackjack is an integer. Bets are held as they are.                *)
(***************************************************************************)
EXTENDS Integers, Sequences, FiniteSets, TLC

\* ------------------------------------------------------------------ bounds

\* The shoe holds NumDecks decks (run_simulation builds Deck(num_decks=6)),
\* and a deck of the model holds the four suits of a few ranks of
\* Card.RANKS only: the ranks a specification names. A shoe this small is
\* dealt to its end within the rounds checked.
NumDecks == 1

\* num_games is at most MaxGames; at most CounterGames for the card
\* counter, and at most MartingaleGames for the martingale.
MaxGames == 1

CounterGames == 2

\* The cards of a hand that is made card by card and given to a strategy.
MaxCards == 4

\* The decks of a shoe that holds more than 52 cards of three ranks, and the
\* rounds played from it.
SpreadDecks == 5

SpreadGames == 2

\* The rounds of a simulation that is followed to its end.
LiveGames == 2

\* The rounds of a simulation that looks at the shoe between two rounds.
ShoeGames == 2

MartingaleGames == 3

\* ------------------------------------------------------------------- Card

SUITS == <<"Hearts", "Diamonds", "Clubs", "Spades">>

RANKS == <<"2", "3", "4", "5", "6", "7", "8", "9", "10", "J", "Q", "K", "A">>

RankSet == {RANKS[i] : i \in 1..Len(RANKS)}

\* Card.VALUES: '2'..'10' are worth their number, J, Q, K 10 and A 11.
VALUES ==
  [r \in RankSet |->
     IF r = "A" THEN 11
     ELSE IF r \in {"J", "Q", "K"} THEN 10
     ELSE (CHOOSE i \in 1..9 : RANKS[i] = r) + 1]

\* ------------------------------------------------------------------- Deck

\* Deck.build: num_decks copies of every suit of every rank of the deck.
\* d.cards[r] is the number of cards of rank r in the shoe.
build(d) ==
  [d EXCEPT !.cards = [r \in DOMAIN d.cards |-> d.num_decks * Len(SUITS)]]

\* Deck.__init__, for decks of these ranks.
Deck(num_decks, ranks) ==
  build([num_decks |-> num_decks, cards |-> [r \in ranks |-> 0]])

RECURSIVE BagSize(_, _)
BagSize(cards, rs) ==
  IF rs = {} THEN 0
  ELSE LET r == CHOOSE x \in rs : TRUE
       IN  cards[r] + BagSize(cards, rs \ {r})

\* len(deck.cards)
DeckLen(d) == BagSize(d.cards, DOMAIN d.cards)

\* Deck.deal, lines 39-41: an empty shoe is rebuilt and reshuffled first.
Refilled(d) == IF DeckLen(d) = 0 THEN build(d) ELSE d

\* A shoe from which deal() returns nothing.
NoneDealable(d) == {}

\* The cards deal() can return: the shoe is in a random order.
Dealable(d) == {r \in DOMAIN d.cards : Refilled(d).cards[r] > 0}

\* A deal that returns a card and leaves it in the shoe.
dealKeeps(d, r) == Refilled(d)

\* Deck.deal, line 42: the shoe after it has returned a card of rank r.
deal(d, r) == [Refilled(d) EXCEPT !.cards[r] = @ - 1]

\* ------------------------------------------------------------------- Hand

RECURSIVE RawSum(_)
RawSum(cards) ==
  IF cards = <<>> THEN 0 ELSE VALUES[Head(cards)] + RawSum(Tail(cards))

RECURSIVE NumAces(_)
NumAces(cards) ==
  IF cards = <<>> THEN 0
  ELSE (IF Head(cards) = "A" THEN 1 ELSE 0) + NumAces(Tail(cards))

\* A value that takes 10 off for one ace at most.
AdjustOnce(value, num_aces) ==
  IF value > 21 /\ num_aces > 0
    THEN [value |-> value - 10, num_aces |-> num_aces - 1]
    ELSE [value |-> value, num_aces |-> num_aces]

\* The loop of Hand.get_value: [value, num_aces] when it ends. num_aces is
\* then the number of aces still counted as 11.
RECURSIVE AdjustForAces(_, _)
AdjustForAces(value, num_aces) ==
  IF value > 21 /\ num_aces # 0
    THEN AdjustForAces(value - 10, num_aces - 1)
    ELSE [value |-> value, num_aces |-> num_aces]

get_value(cards) == AdjustForAces(RawSum(cards), NumAces(cards)).value

\* A test that finds no blackjack.
NeverBlackjack(cards) == FALSE

is_blackjack(cards) == Len(cards) = 2 /\ get_value(cards) = 21

is_soft(cards) == NumAces(cards) > 0 /\ RawSum(cards) <= 21

\* Hand.__str__: the ranks joined by '-'.
RECURSIVE str(_)
str(cards) ==
  IF cards = <<>> THEN ""
  ELSE IF Len(cards) = 1 THEN Head(cards)
  ELSE Head(cards) \o "-" \o str(Tail(cards))

\* ------------------------------------------------------------- strategies

\* A keyword argument of a call: kw[key] when the call passes it, the
\* parameter's default otherwise (also kwargs.get(key, default)).
Get(kw, key, default) == IF key \in DOMAIN kw THEN kw[key] ELSE default

\* **kwargs of a function that names `keys` as parameters of its own.
Rest(kw, keys) == [k \in DOMAIN kw \ keys |-> kw[k]]

NoArgs == [k \in {} |-> 0]

Has(cards, r) == \E i \in 1..Len(cards) : cards[i] = r

strategy_mimic_dealer(player_hand, dealer_upcard, kw) ==
  IF get_value(player_hand) < 17 THEN "hit" ELSE "stand"

strategy_fixed_threshold(player_hand, dealer_upcard, kw) ==
  IF get_value(player_hand) < Get(kw, "threshold", 15) THEN "hit" ELSE "stand"

strategy_dealer_weakness(player_hand, dealer_upcard, kw) ==
  IF dealer_upcard \in {"2", "3", "4", "5", "6"} /\ get_value(player_hand) >= 12
    THEN "stand"
    ELSE IF get_value(player_hand) < 17 THEN "hit" ELSE "stand"

\* strategy_basic, lines 203-219: the pair chart; "" when no line returns.
PairChart(pair, up, can_double) ==
  IF pair \in {"A", "8"} THEN "split"
  ELSE IF pair \in {"2", "3", "7"} /\ up \in {"2", "3", "4", "5", "6", "7"}
    THEN "split"
  ELSE IF pair = "6" /\ up \in {"2", "3", "4", "5", "6"} THEN "split"
  ELSE IF pair = "9" /\ up \in {"2", "3", "4", "5", "6", "8", "9"} THEN "split"
  ELSE IF pair = "4" /\ up \in {"5", "6"} THEN "split"
  ELSE IF pair = "5" /\ up \in {"2", "3", "4", "5", "6", "7", "8", "9"}
    THEN (IF can_double THEN "double" ELSE "hit")
  ELSE IF pair = "10" THEN "stand"
  ELSE ""

\* strategy_basic, lines 221-240: doubling down; "" when no line returns.
\* other is the first rank that is not an ace, "" when there is none.
DoubleChart(hasAce, other, val, up) ==
  IF hasAce /\ other # "" /\ other \in {"2", "3"} /\ up \in {"5", "6"}
    THEN "double"
  ELSE IF hasAce /\ other # "" /\ other \in {"4", "5"} /\ up \in {"4", "5", "6"}
    THEN "double"
  ELSE IF hasAce /\ other # "" /\ other = "6" /\ up \in {"3", "4", "5", "6"}
    THEN "double"
  ELSE IF hasAce /\ other # "" /\ other = "7" /\ up \in {"3", "4", "5", "6"}
    THEN "double"
  ELSE IF val = 9 /\ up \in {"3", "4", "5", "6"} THEN "double"
  ELSE IF val = 10 /\ up \in {"2", "3", "4", "5", "6", "7", "8", "9"}
    THEN "double"
  ELSE IF val = 11 /\ up \in {"2", "3", "4", "5", "6", "7", "8", "9", "10"}
    THEN "double"
  ELSE ""

\* strategy_basic, lines 243-269: a two-card hand with an ace.
SoftChart(other, up) ==
  IF other # "" THEN
    IF other \in {"8", "9", "10"} THEN "stand"
    ELSE IF other = "7"
      THEN (IF up \in {"2", "7", "8"} THEN "stand" ELSE "hit")
    ELSE IF other = "6"
      THEN (IF up \in {"2", "3", "4", "5", "6"} THEN "stand" ELSE "hit")
    ELSE IF other \in {"2", "3", "4", "5"}
      THEN (IF up \in {"4", "5", "6"} THEN "stand" ELSE "hit")
    ELSE IF other \in {"2", "3"} /\ up \in {"5", "6"} THEN "stand"
    ELSE "hit"
  ELSE "hit"

\* Hard totals that stand on 12 against 2 to 6 as on 13 to 16.
HardChartTwelve(val, up) ==
  IF val <= 11 THEN "hit"
  ELSE IF val <= 16
    THEN (IF up \in {"2", "3", "4", "5", "6"} THEN "stand" ELSE "hit")
  ELSE "stand"

\* strategy_basic, lines 271-284: hard totals.
HardChart(val, up) ==
  IF val <= 11 THEN "hit"
  ELSE IF val = 12
    THEN (IF up \in {"4", "5", "6"} THEN "stand" ELSE "hit")
  ELSE IF 13 <= val /\ val <= 16
    THEN (IF up \in {"2", "3", "4", "5", "6"} THEN "stand" ELSE "hit")
  ELSE "stand"

strategy_basic(player_hand, dealer_upcard, kw) ==
  LET can_double == Get(kw, "can_double", FALSE)
      can_split == Get(kw, "can_split", FALSE)
      ranks == player_hand
      val == get_value(player_hand)
      up == dealer_upcard
      others == SelectSeq(ranks, LAMBDA r : r # "A")
      other == IF others # <<>> THEN others[1] ELSE ""
      pairs == IF can_split /\ Len(player_hand) = 2 /\ ranks[1] = ranks[2]
                 THEN PairChart(ranks[1], up, can_double) ELSE ""
      doubles == IF can_double /\ Len(player_hand) = 2
                   THEN DoubleChart(Has(ranks, "A"), other, val, up) ELSE ""
  IN  IF pairs # "" THEN pairs
      ELSE IF doubles # "" THEN doubles
      ELSE IF Has(ranks, "A") /\ Len(player_hand) = 2 THEN SoftChart(other, up)
      ELSE HardChart(val, up)

\* A true count that is the running count, whatever decks remain.
RunningCountOnly(kw) == [num |-> Get(kw, "running_count", 0), den |-> 1]

\* strategy_card_counter, lines 286-291: the running count and the decks
\* remaining it works with, and so its true count num / den. running_count
\* is a parameter of its own (default 0); decks_remaining is read from
\* kwargs (default 1).
CounterCount(kw) ==
  LET kwargs == Rest(kw, {"running_count"})
      m == Get(kwargs, "decks_remaining", 1)
  IN  [num |-> Get(kw, "running_count", 0), den |-> IF m > 1 THEN m ELSE 1]

strategy_card_counter(player_hand, dealer_upcard, kw) ==
  LET kwargs == Rest(kw, {"running_count"})
      tc == CounterCount(kw)
      val == get_value(player_hand)
      up == dealer_upcard
  IN  IF up = "A" /\ tc.num >= 3 * tc.den THEN "insurance"
      ELSE IF val = 16 /\ up = "10" /\ tc.num >= 0 THEN "stand"
      ELSE IF val = 15 /\ up = "10" /\ tc.num >= 4 * tc.den THEN "stand"
      ELSE IF val = 13 /\ up = "2" /\ tc.num <= -tc.den THEN "hit"
      ELSE IF val = 12 /\ up = "3" /\ tc.num <= 0 THEN "hit"
      ELSE IF val = 12 /\ up = "2" /\ tc.num >= 3 * tc.den THEN "stand"
      ELSE strategy_basic(player_hand, dealer_upcard, kwargs)

\* The answers a strategy function may give.
Answers == {"hit", "stand", "double", "split", "insurance"}

\* strategy_func(hand, upcard, **kw), for the strategy function of this
\* name. play_round takes any function as its strategy: besides the
\* strategies of the repository there is, for each answer, the function
\* that gives this answer to every call.
strategy_func(name, hand, upcard, kw) ==
  IF name = "strategy_mimic_dealer"
    THEN strategy_mimic_dealer(hand, upcard, kw)
  ELSE IF name = "strategy_fixed_threshold"
    THEN strategy_fixed_threshold(hand, upcard, kw)
  ELSE IF name = "strategy_dealer_weakness"
    THEN strategy_dealer_weakness(hand, upcard, kw)
  ELSE IF name = "strategy_basic"
    THEN strategy_basic(hand, upcard, kw)
  ELSE IF name = "strategy_card_counter"
    THEN strategy_card_counter(hand, upcard, kw)
  ELSE IF name = "always_hit" THEN "hit"
  ELSE IF name = "always_stand" THEN "stand"
  ELSE IF name = "always_double" THEN "double"
  ELSE IF name = "always_split" THEN "split"
  ELSE "insurance"

\* ---------------------------------------------------------------- betting

betting_flat(base_bet) == base_bet

\* A martingale that doubles after every result but a win.
betting_martingale_unless_win(base_bet, last_result, current_bet) ==
  IF last_result # "win" THEN current_bet * 2 ELSE base_bet

betting_martingale(base_bet, last_result, current_bet) ==
  IF last_result = "loss" THEN current_bet * 2 ELSE base_bet

\* --------------------------------------------------------------- counting

\* A count in which the ten is not a high card.
update_count_without_ten(count, card) ==
  IF card \in {"2", "3", "4", "5", "6"} THEN count + 1
  ELSE IF card \in {"J", "Q", "K", "A"} THEN count - 1
  ELSE count

update_count(count, card) ==
  IF card \in {"2", "3", "4", "5", "6"} THEN count + 1
  ELSE IF card \in {"10", "J", "Q", "K", "A"} THEN count - 1
  ELSE count

\* A fold that counts the last card only.
CountLast(count, cards) ==
  IF cards = <<>> THEN count
  ELSE IF cards[Len(cards)] \in {"2", "3", "4", "5", "6"} THEN count + 1
  ELSE IF cards[Len(cards)] \in {"10", "J", "Q", "K", "A"} THEN count - 1
  ELSE count

\* run_simulation, lines 385-386: update_count folded over cards_seen.
RECURSIVE CountAll(_, _)
CountAll(count, cards) ==
  IF cards = <<>> THEN count
  ELSE CountAll(update_count(count, Head(cards)), Tail(cards))

\* ------------------------------------------------------- several deals

\* The sequences of n cards that n calls of deck.deal() can return.
RECURSIVE Deals(_, _)
Deals(d, n) ==
  IF n = 0 THEN {<<>>}
  ELSE UNION {{<<c>> \o rest : rest \in Deals(deal(d, c), n - 1)} :
              c \in Dealable(d)}

\* The shoe after deck.deal() has returned the cards cs, one by one.
RECURSIVE DealAll(_, _)
DealAll(d, cs) ==
  IF cs = <<>> THEN d ELSE DealAll(deal(d, Head(cs)), Tail(cs))

\* How many of these calls found the shoe empty and rebuilt it.
RECURSIVE Refills(_, _)
Refills(d, cs) ==
  IF cs = <<>> THEN 0
  ELSE (IF DeckLen(d) = 0 THEN 1 ELSE 0) + Refills(deal(d, Head(cs)), Tail(cs))

\* ------------------------------------------------------------------ state

VARIABLES
  \* run_simulation's parameters
  playing_strategy, num_games, betting_strategy, base_bet,
  reshuffle_each_hand, strategy_args,
  \* run_simulation's locals
  deck, game_results, running_count, last_result, current_bet, i, bet, stats,
  \* play_round's locals
  player_hand, dealer_hand, cards_seen, player_blackjack, dealer_blackjack,
  result, profit, player_final,
  \* the calls of play_single_hand in progress, the innermost last
  stack,
  \* play_dealer's locals
  dealer, dealer_cards,
  \* the value a call of play_single_hand is returning
  ret,
  \* where the program is
  pc,
  \* what the current round has done so far: the calls made and their
  \* arguments and results (not a variable of the program). When the round
  \* has ended, only the number of rebuilds made by deal() is kept until
  \* the next round starts. `dealt` is the cards deck.deal() has returned in
  \* the round, in the order of the calls
  log

params == <<playing_strategy, num_games, betting_strategy, base_bet,
            reshuffle_each_hand, strategy_args>>

driver == <<deck, game_results, running_count, last_result, current_bet, i,
            bet, stats>>

round == <<player_hand, dealer_hand, cards_seen, player_blackjack,
           dealer_blackjack, result, profit, player_final>>

vars == <<params, driver, round, stack, dealer, dealer_cards, ret, pc, log>>

\* None in Python, for a result tag or a string.
None == ""

NoRet == [final |-> None, profit |-> 0, hand |-> <<>>, set |-> FALSE]

NoCall ==
  [hand |-> <<>>, upcard |-> None, kw |-> NoArgs, answer |-> None,
   depth |-> 0, left |-> 0]

NoStats == [num_games |-> 0]

\* The log of a round that has not started.
NoLog ==
  [start_count |-> 0, calls |-> 0, last_call |-> NoCall, deals |-> 0,
   dealt |-> <<>>, refills |-> 0, splits |-> 0, split_call |-> 0,
   dealer_plays |-> 0, settled |-> <<>>]

\* A call play_single_hand(hand, bet, allow_double, allow_split) at its
\* first line. `at` is the place the call has reached: "split" (line 93),
\* "double" (line 109), "loop" (line 128), "dealer" (lines 118 and 139),
\* "hand1" and "hand2" (the recursive calls of lines 105 and 106).
Frame(hand, b, allow_double, allow_split) ==
  [hand |-> hand, bet |-> b, allow_double |-> allow_double,
   allow_split |-> allow_split, at |-> "split", doubled |-> FALSE,
   hand1 |-> <<>>, hand2 |-> <<>>, prof1 |-> 0]

\* A hand of a split that may be split again.
SubHandSplits(hand, b) == Frame(hand, b, TRUE, TRUE)

\* Lines 105-106: the call that plays one hand of a split: it may double,
\* and may not split again.
SubHand(hand, b) == Frame(hand, b, TRUE, FALSE)

Top == stack[Len(stack)]

SetTop(f) == [stack EXCEPT ![Len(stack)] = f]

\* Python's amounts of money are held doubled (1.5 * bet is 3 * bet).
Money(x) == 2 * x

\* A stake of twice the bet for every hand.
StakeTwice(doubled, b) == 2 * b

\* A stake that a double does not raise.
StakeSingle(doubled, b) == b

\* What a hand wins or loses: twice the bet when it was doubled (lines 116
\* and 122-124), the bet otherwise (lines 135 and 143-145).
Stake(doubled, b) == IF doubled THEN 2 * b ELSE b

\* The main hand of the round is the object player_hand itself: what the
\* outermost call does to its hand, it does to player_hand.
Aliased(hand) == IF Len(stack) = 1 THEN hand ELSE player_hand

\* --------------------------------------------------------- run_simulation

\* A bet that does not go down when the true count goes up.
SpreadBetMonotone(count, n) ==
  LET m == IF n > 52 THEN n ELSE 52
  IN  IF 52 * count < 2 * m THEN 10
      ELSE IF 52 * count < 3 * m THEN 25
      ELSE IF 52 * count < 4 * m THEN 50
      ELSE 100

\* Lines 355-368: the card counter's bet, from the running count and the
\* cards left in the shoe. decks_remaining = max(n / 52, 1) and
\* true_count = count / decks_remaining, so true_count = 52 * count / m
\* with m = max(n, 52).
SpreadBet(count, n) ==
  LET m == IF n > 52 THEN n ELSE 52
  IN  IF 52 * count < m THEN 10
      ELSE IF 52 * count = 2 * m THEN 25
      ELSE IF 52 * count = 3 * m THEN 50
      ELSE IF 52 * count >= 4 * m THEN 100
      ELSE 10

\* A start of round that rebuilds by reshuffle_each_hand for every strategy.
RebuildsByFlag == reshuffle_each_hand \/ DeckLen(deck) < 52

\* Lines 350-354 and 370-373: whether the round starts by rebuilding and
\* reshuffling the shoe and resetting the running count.
RebuildsAtStart ==
  IF playing_strategy = "strategy_card_counter"
    THEN DeckLen(deck) = 0
    ELSE reshuffle_each_hand \/ DeckLen(deck) < 52

\* Lines 348-379: the head of the loop, one more round to play.
RoundStart ==
  /\ pc = "loop"
  /\ i < num_games
  /\ LET d == IF RebuildsAtStart THEN build(deck) ELSE deck
         count == IF RebuildsAtStart THEN 0 ELSE running_count
         martingale == betting_martingale(base_bet, last_result, current_bet)
     IN  /\ deck' = d
         /\ running_count' = count
         /\ bet' = IF playing_strategy = "strategy_card_counter"
                     THEN SpreadBet(count, DeckLen(d))
                   ELSE IF betting_strategy = "betting_martingale"
                     THEN martingale
                   ELSE betting_flat(base_bet)
         /\ current_bet' = IF /\ playing_strategy # "strategy_card_counter"
                              /\ betting_strategy = "betting_martingale"
                             THEN martingale ELSE current_bet
         /\ log' = [NoLog EXCEPT !.start_count = count]
  /\ pc' = "play_round"
  /\ UNCHANGED <<params, game_results, last_result, i, stats, round, stack,
                 dealer, dealer_cards, ret>>

\* Lines 381-383: the keyword arguments of the call of play_round.
round_args == [k \in DOMAIN strategy_args \cup {"running_count"} |->
                 IF k = "running_count" THEN running_count
                 ELSE strategy_args[k]]

\* Line 73: play_round's **strategy_args, the keyword arguments that are
\* not parameters of play_round itself.
play_round_strategy_args(kw) ==
  Rest(kw, {"betting_amount", "betting_strategy", "running_count"})

\* strategy_func(hand, dealer_hand.cards[0], <flag>=True, **strategy_args)
\* as play_single_hand calls it: flag is "can_split", "can_double" or None.
CallArgs(flag) ==
  LET sa == play_round_strategy_args(round_args)
  IN  [k \in DOMAIN sa \cup (IF flag = None THEN {} ELSE {flag}) |->
         IF k = flag THEN TRUE ELSE sa[k]]

\* The log after a strategy call with these arguments and this answer, made
\* by the call of play_single_hand at this depth with this many cards left
\* in the shoe.
Called(l, hand, kw, answer) ==
  [l EXCEPT !.calls = @ + 1,
            !.last_call = [hand |-> hand, upcard |-> dealer_hand[1],
                           kw |-> kw, answer |-> answer,
                           depth |-> Len(stack), left |-> DeckLen(deck)]]

\* ------------------------------------------------------------- play_round

\* A blackjack of the player that wins also against the dealer's.
BlackjacksPlayerFirst(player_bj, dealer_bj, betting_amount) ==
  IF player_bj THEN [result |-> "win", profit |-> 3 * betting_amount]
  ELSE [result |-> "loss", profit |-> -2 * betting_amount]

\* Lines 160-168: the round's result and profit when a blackjack was dealt.
Blackjacks(player_bj, dealer_bj, betting_amount) ==
  IF player_bj /\ dealer_bj THEN [result |-> "push", profit |-> 0]
  ELSE IF player_bj THEN [result |-> "win", profit |-> 3 * betting_amount]
  ELSE [result |-> "loss", profit |-> -Money(betting_amount)]

\* Lines 75-88 and 160-170: the four cards are dealt, the blackjacks are
\* checked, and either the round is resolved or the player's hand is played.
DealInitial ==
  /\ pc = "play_round"
  /\ \E cs \in Deals(deck, 4) :
       LET ph == <<cs[1], cs[3]>>
           dh == <<cs[2], cs[4]>>
           bj == Blackjacks(is_blackjack(ph), is_blackjack(dh), bet)
           resolved == is_blackjack(ph) \/ is_blackjack(dh)
       IN  /\ deck' = DealAll(deck, cs)
           /\ player_hand' = ph
           /\ dealer_hand' = dh
           /\ cards_seen' = ph \o dh
           /\ player_blackjack' = is_blackjack(ph)
           /\ dealer_blackjack' = is_blackjack(dh)
           /\ result' = IF resolved THEN bj.result ELSE None
           /\ profit' = IF resolved THEN bj.profit ELSE 0
           /\ stack' = IF resolved THEN <<>>
                       ELSE <<Frame(ph, bet, TRUE, TRUE)>>
           /\ pc' = IF resolved THEN "return" ELSE "hand"
           /\ log' = [log EXCEPT !.deals = @ + 4,
                                 !.dealt = @ \o cs,
                                 !.refills = @ + Refills(deck, cs)]
  /\ UNCHANGED <<params, game_results, running_count, last_result,
                 current_bet, i, bet, stats, player_final, dealer,
                 dealer_cards, ret>>

\* Lines 93-107: the hand is split when it may be, is a pair, and the
\* strategy answers 'split'; hand1 is then played first.
OfferSplit ==
  /\ pc = "hand"
  /\ Top.at = "split"
  /\ IF Top.allow_split /\ Len(Top.hand) = 2 /\ Top.hand[1] = Top.hand[2]
       THEN LET action == strategy_func(playing_strategy, Top.hand,
                                        dealer_hand[1], CallArgs("can_split"))
            IN
              IF action = "split"
                THEN \E cs \in Deals(deck, 2) :
                       LET hand1 == <<Top.hand[1], cs[1]>>
                           hand2 == <<Top.hand[2], cs[2]>>
                           l == Called(log, Top.hand, CallArgs("can_split"), action)
                       IN  /\ deck' = DealAll(deck, cs)
                           /\ cards_seen' = cards_seen \o cs
                           /\ stack' = Append(
                                SetTop([Top EXCEPT !.at = "hand1",
                                                   !.hand1 = hand1,
                                                   !.hand2 = hand2]),
                                SubHand(hand1, Top.bet))
                           /\ log' = [l EXCEPT !.deals = @ + 2,
                                               !.dealt = @ \o cs,
                                               !.refills = @ + Refills(deck, cs),
                                               !.splits = @ + 1,
                                               !.split_call = l.calls]
                ELSE /\ stack' = SetTop([Top EXCEPT !.at = "double"])
                     /\ log' = Called(log, Top.hand, CallArgs("can_split"), action)
                     /\ UNCHANGED <<deck, cards_seen>>
       ELSE /\ stack' = SetTop([Top EXCEPT !.at = "double"])
            /\ UNCHANGED <<deck, cards_seen, log>>
  /\ UNCHANGED <<params, game_results, running_count, last_result,
                 current_bet, i, bet, stats, player_hand, dealer_hand,
                 player_blackjack, dealer_blackjack, result, profit,
                 player_final, dealer, dealer_cards, ret, pc>>

\* A hand's return value (str(hand), profit), with the hand itself: the
\* caller of a split still holds the hand as hand1 or hand2.
Returns(hand, prof) ==
  [final |-> str(hand), profit |-> prof, hand |-> hand, set |-> TRUE]

\* The log after a hand has been settled: against the dealer's final hand,
\* or with no dealer play (<<>>) when the hand went over 21.
Settled(l, hand, doubled, dealer_final, prof) ==
  [l EXCEPT !.settled = Append(@, [hand |-> hand, bet |-> Top.bet,
                                   doubled |-> doubled,
                                   dealer |-> dealer_final,
                                   profit |-> prof])]

\* Lines 109-116: the hand is doubled when it may be, has two cards and the
\* strategy answers 'double': one card, and a bust loses twice the bet.
OfferDouble ==
  /\ pc = "hand"
  /\ Top.at = "double"
  /\ IF Top.allow_double /\ Len(Top.hand) = 2
       THEN LET action == strategy_func(playing_strategy, Top.hand,
                                        dealer_hand[1], CallArgs("can_double"))
                l == Called(log, Top.hand, CallArgs("can_double"), action)
            IN    IF action = "double"
                    THEN \E card \in Dealable(deck) :
                           LET hand == Append(Top.hand, card)
                               bust == get_value(hand) > 21
                               l2 == [l EXCEPT !.deals = @ + 1,
                                               !.dealt = Append(@, card),
                                               !.refills = @ + Refills(deck, <<card>>)]
                           IN  /\ deck' = deal(deck, card)
                               /\ cards_seen' = Append(cards_seen, card)
                               /\ player_hand' = Aliased(hand)
                               /\ stack' = SetTop([Top EXCEPT !.hand = hand,
                                                              !.doubled = TRUE,
                                                              !.at = "dealer"])
                               /\ ret' = IF bust
                                           THEN Returns(hand, Money(-Stake(TRUE, Top.bet)))
                                           ELSE ret
                               /\ pc' = IF bust THEN "unwind" ELSE "dealer"
                               /\ dealer' = IF bust THEN dealer ELSE dealer_hand
                               /\ dealer_cards' = IF bust THEN dealer_cards ELSE <<>>
                               /\ log' = IF bust
                                           THEN Settled(l2, hand, TRUE, <<>>,
                                                        Money(-Stake(TRUE, Top.bet)))
                                           ELSE [l2 EXCEPT !.dealer_plays = @ + 1]
                    ELSE /\ stack' = SetTop([Top EXCEPT !.at = "loop"])
                         /\ log' = l
                         /\ UNCHANGED <<deck, cards_seen, player_hand, ret, pc,
                                        dealer, dealer_cards>>
       ELSE /\ stack' = SetTop([Top EXCEPT !.at = "loop"])
            /\ UNCHANGED <<deck, cards_seen, player_hand, ret, pc, dealer,
                           dealer_cards, log>>
  /\ UNCHANGED <<params, game_results, running_count, last_result,
                 current_bet, i, bet, stats, dealer_hand, player_blackjack,
                 dealer_blackjack, result, profit, player_final>>

\* Lines 128-137: one turn of the loop. 'hit' takes a card, and over 21 the
\* hand loses its bet; any other answer leaves the loop for the dealer.
HitOrStand ==
  /\ pc = "hand"
  /\ Top.at = "loop"
  /\ LET action == strategy_func(playing_strategy, Top.hand, dealer_hand[1],
                                 CallArgs(None))
         l == Called(log, Top.hand, CallArgs(None), action)
     IN    IF action = "hit"
             THEN \E card \in Dealable(deck) :
                    LET hand == Append(Top.hand, card)
                        bust == get_value(hand) > 21
                        l2 == [l EXCEPT !.deals = @ + 1,
                                        !.dealt = Append(@, card),
                                        !.refills = @ + Refills(deck, <<card>>)]
                    IN  /\ deck' = deal(deck, card)
                        /\ cards_seen' = Append(cards_seen, card)
                        /\ player_hand' = Aliased(hand)
                        /\ stack' = SetTop([Top EXCEPT !.hand = hand])
                        /\ ret' = IF bust
                                    THEN Returns(hand, Money(-Stake(FALSE, Top.bet)))
                                  ELSE ret
                        /\ pc' = IF bust THEN "unwind" ELSE pc
                        /\ log' = IF bust
                                    THEN Settled(l2, hand, FALSE, <<>>,
                                                 Money(-Stake(FALSE, Top.bet)))
                                    ELSE l2
                        /\ UNCHANGED <<dealer, dealer_cards>>
             ELSE /\ stack' = SetTop([Top EXCEPT !.at = "dealer"])
                  /\ pc' = "dealer"
                  /\ dealer' = dealer_hand
                  /\ dealer_cards' = <<>>
                  /\ log' = [l EXCEPT !.dealer_plays = @ + 1]
                  /\ UNCHANGED <<deck, cards_seen, player_hand, ret>>
  /\ UNCHANGED <<params, game_results, running_count, last_result,
                 current_bet, i, bet, stats, dealer_hand, player_blackjack,
                 dealer_blackjack, result, profit, player_final>>

\* Line 154: whether play_dealer takes another card.
DealerDraws(cards) ==
  get_value(cards) < 17 \/ (get_value(cards) = 17 /\ is_soft(cards))

\* Lines 154-157: the dealer takes a card.
DealerDraw ==
  /\ pc = "dealer"
  /\ DealerDraws(dealer)
  /\ \E card \in Dealable(deck) :
       /\ deck' = deal(deck, card)
       /\ dealer' = Append(dealer, card)
       /\ dealer_cards' = Append(dealer_cards, card)
       /\ log' = [log EXCEPT !.deals = @ + 1,
                             !.dealt = Append(@, card),
                             !.refills = @ + Refills(deck, <<card>>)]
  /\ UNCHANGED <<params, game_results, running_count, last_result,
                 current_bet, i, bet, stats, round, stack, ret, pc>>

\* A settlement that the player always loses.
SettleLost(player_val, dealer_val, stake) == -stake

\* A settlement in which the player wins the ties.
SettleTiesWin(player_val, dealer_val, stake) ==
  IF dealer_val > 21 \/ player_val >= dealer_val THEN stake
  ELSE IF player_val < dealer_val THEN -stake
  ELSE 0

\* Lines 121-126 and 142-147: the profit of a hand that stood.
Settle(player_val, dealer_val, stake) ==
  IF dealer_val > 21 \/ player_val > dealer_val THEN stake
  ELSE IF player_val < dealer_val THEN -stake
  ELSE 0

\* Lines 158, 119-126 and 140-147: play_dealer returns, its cards are added
\* to cards_seen and the hand is settled against the dealer's value.
DealerStands ==
  /\ pc = "dealer"
  /\ ~DealerDraws(dealer)
  /\ LET dealer_val == get_value(dealer)
         player_val == get_value(Top.hand)
         stake == Stake(Top.doubled, Top.bet)
         prof == Money(Settle(player_val, dealer_val, stake))
     IN  /\ cards_seen' = cards_seen \o dealer_cards
         /\ ret' = Returns(Top.hand, prof)
         /\ log' = Settled(log, Top.hand, Top.doubled, dealer, prof)
  /\ pc' = "unwind"
  /\ UNCHANGED <<params, driver, player_hand, dealer_hand, player_blackjack,
                 dealer_blackjack, result, profit, player_final, stack,
                 dealer, dealer_cards>>

\* A call of play_single_hand returns: to play_round (lines 170-171), or to
\* the call that split, which plays hand2 next (line 106) or returns the two
\* hands and the sum of their profits (line 107).
Unwind ==
  /\ pc = "unwind"
  /\ LET below == SubSeq(stack, 1, Len(stack) - 1)
         caller == below[Len(below)]
     IN  IF below = <<>>
           THEN /\ player_final' = ret.final
                /\ profit' = ret.profit
                /\ result' = IF ret.profit > 0 THEN "win"
                             ELSE IF ret.profit < 0 THEN "loss" ELSE "push"
                /\ stack' = <<>>
                /\ ret' = NoRet
                /\ pc' = "return"
           ELSE IF caller.at = "hand1"
             THEN /\ stack' = Append(
                       [below EXCEPT ![Len(below)] =
                          [caller EXCEPT !.at = "hand2", !.hand1 = ret.hand,
                                         !.prof1 = ret.profit]],
                       SubHand(caller.hand2, caller.bet))
                  /\ ret' = NoRet
                  /\ pc' = "hand"
                  /\ UNCHANGED <<player_final, profit, result>>
             ELSE /\ stack' = below
                  /\ ret' = [final |-> str(caller.hand1) \o "|" \o str(ret.hand),
                             profit |-> caller.prof1 + ret.profit,
                             hand |-> caller.hand, set |-> TRUE]
                  /\ UNCHANGED <<player_final, profit, result, pc>>
  /\ UNCHANGED <<params, driver, player_hand, dealer_hand, cards_seen,
                 player_blackjack, dealer_blackjack, dealer, dealer_cards,
                 log>>

\* A record that lists the four cards of the initial deal only.
RecordOfFour ==
  [player_hand |-> IF player_final # None THEN player_final
                   ELSE str(player_hand),
   player_final_value |-> get_value(player_hand),
   dealer_hand |-> str(dealer_hand),
   dealer_final_value |-> get_value(dealer_hand),
   result |-> result,
   profit |-> profit,
   cards_seen |-> SubSeq(cards_seen, 1, 4)]

\* Lines 173-181: the record play_round returns.
Record ==
  [player_hand |-> IF player_final # None THEN player_final
                   ELSE str(player_hand),
   player_final_value |-> get_value(player_hand),
   dealer_hand |-> str(dealer_hand),
   dealer_final_value |-> get_value(dealer_hand),
   result |-> result,
   profit |-> profit,
   cards_seen |-> cards_seen]

\* What game_results keeps of a round here: the fields run_simulation reads
\* again (lines 390-406). The other fields of a round's record are those of
\* Record when play_round returns.
Stored(r, b) == [result |-> r.result, profit |-> r.profit, bet |-> b]

\* Lines 383-390: play_round returns, the cards seen are counted, and the
\* record is stored with its bet.
FinishRound ==
  /\ pc = "return"
  /\ running_count' = CountAll(running_count, Record.cards_seen)
  /\ game_results' = Append(game_results, Stored(Record, bet))
  /\ last_result' = Record.result
  /\ i' = i + 1
  /\ pc' = "loop"
  /\ player_hand' = <<>>
  /\ dealer_hand' = <<>>
  /\ cards_seen' = <<>>
  /\ player_blackjack' = FALSE
  /\ dealer_blackjack' = FALSE
  /\ result' = None
  /\ profit' = 0
  /\ player_final' = None
  /\ dealer' = <<>>
  /\ dealer_cards' = <<>>
  /\ log' = [NoLog EXCEPT !.refills = log.refills]
  /\ UNCHANGED <<params, deck, current_bet, bet, stats, stack, ret>>

RECURSIVE SumOf(_, _)
SumOf(rs, field) ==
  IF rs = <<>> THEN 0 ELSE Head(rs)[field] + SumOf(Tail(rs), field)

CountOf(rs, tag) == Cardinality({k \in 1..Len(rs) : rs[k].result = tag})

MaxBet(rs) == CHOOSE b \in {rs[k].bet : k \in 1..Len(rs)} :
                \A k \in 1..Len(rs) : rs[k].bet <= b

\* The bet of the last round.
LastBet(rs) == rs[Len(rs)].bet

MinBet(rs) == CHOOSE b \in {rs[k].bet : k \in 1..Len(rs)} :
                \A k \in 1..Len(rs) : rs[k].bet >= b

\* Lines 391-408: the statistics. A rate or an average is the pair of its
\* numerator and its denominator num_games.
Aggregate ==
  /\ pc = "loop"
  /\ i = num_games
  /\ stats' =
       [num_games |-> num_games,
        total_profit |-> SumOf(game_results, "profit"),
        total_bet |-> SumOf(game_results, "bet"),
        win_rate |-> <<CountOf(game_results, "win"), num_games>>,
        loss_rate |-> <<CountOf(game_results, "loss"), num_games>>,
        push_rate |-> <<CountOf(game_results, "push"), num_games>>,
        avg_bet |-> <<SumOf(game_results, "bet"), num_games>>,
        max_bet |-> MaxBet(game_results),
        min_bet |-> MinBet(game_results)]
  /\ pc' = "done"
  /\ UNCHANGED <<params, deck, game_results, running_count, last_result,
                 current_bet, i, bet, round, stack, dealer, dealer_cards,
                 ret, log>>

\* ---------------------------------------------------------- specification

\* Lines 339-347: run_simulation starts: a fresh shuffled shoe, no result,
\* a count of 0. The strategy, the betting strategy, reshuffle_each_hand, the
\* ranks of a deck and num_games are taken from the sets given; the shoe is
\* of num_decks decks.
InitDecks(strategies, bettings, reshuffles, num_decks, ranks, games) ==
  /\ playing_strategy \in strategies
  /\ num_games \in games
  /\ betting_strategy \in bettings
  /\ base_bet = 10
  /\ reshuffle_each_hand \in reshuffles
  /\ strategy_args = IF playing_strategy = "strategy_fixed_threshold"
                       THEN [threshold |-> 12] ELSE NoArgs
  /\ deck = Deck(num_decks, ranks)
  /\ game_results = <<>>
  /\ running_count = 0
  /\ last_result = None
  /\ current_bet = base_bet
  /\ i = 0
  /\ bet = 0
  /\ stats = NoStats
  /\ player_hand = <<>>
  /\ dealer_hand = <<>>
  /\ cards_seen = <<>>
  /\ player_blackjack = FALSE
  /\ dealer_blackjack = FALSE
  /\ result = None
  /\ profit = 0
  /\ player_final = None
  /\ stack = <<>>
  /\ dealer = <<>>
  /\ dealer_cards = <<>>
  /\ ret = NoRet
  /\ pc = "loop"
  /\ log = NoLog

\* The same with a shoe of NumDecks decks.
InitWith(strategies, bettings, reshuffles, ranks, games) ==
  InitDecks(strategies, bettings, reshuffles, NumDecks, ranks, games)

Next ==
  \/ RoundStart
  \/ DealInitial
  \/ OfferSplit
  \/ OfferDouble
  \/ HitOrStand
  \/ DealerDraw
  \/ DealerStands
  \/ Unwind
  \/ FinishRound
  \/ Aggregate

\* A round of strategy_basic, or of a function that gives one answer to
\* every call, with a flat bet and a fresh shoe each round. The shoe's ranks
\* give blackjacks, pairs that are split (A-A) and not split (5-5, 10-10),
\* doubled hands (5-5, A-5), soft and hard hands and busts.
Init ==
  InitWith({"strategy_basic", "always_hit", "always_stand", "always_double",
            "always_split", "always_insurance"},
           {"betting_flat"}, {TRUE}, {"5", "10", "A"}, 1..MaxGames)

Spec == Init /\ [][Next]_vars

\* The dealer's play, against a player who plays like the dealer: the shoe's
\* ranks give the dealer soft 17s of one ace (A-6) and of several (A-A-5).
InitDealer ==
  InitWith({"strategy_mimic_dealer"}, {"betting_flat"}, {TRUE},
           {"5", "6", "10", "A"}, 1..MaxGames)

SpecDealer == InitDealer /\ [][Next]_vars

\* The card counter, whose shoe is kept from round to round: low (+1),
\* neutral (0) and high (-1) ranks.
InitCounter ==
  InitWith({"strategy_card_counter"}, {"betting_flat"}, {TRUE, FALSE},
           {"5", "9", "10"}, 1..CounterGames)

SpecCounter == InitCounter /\ [][Next]_vars

\* The martingale, with the strategies that do not count.
InitMartingale ==
  InitWith({"strategy_mimic_dealer", "strategy_fixed_threshold"},
           {"betting_martingale"}, {TRUE}, {"5", "10", "A"},
           1..MartingaleGames)

SpecMartingale == InitMartingale /\ [][Next]_vars

\* Two rounds of strategy_mimic_dealer or of the card counter, with and
\* without reshuffle_each_hand, on a shoe of eight cards: a round that
\* splits 6-6 and takes all eight leaves the next round an empty shoe.
InitShoe ==
  InitWith({"strategy_mimic_dealer", "strategy_card_counter"},
           {"betting_flat"}, {TRUE, FALSE}, {"6", "10"}, 1..ShoeGames)

SpecShoe == InitShoe /\ [][Next]_vars

\* Rounds of the card counter from a shoe of 60 cards: the second round
\* starts with 52 cards or more and a count between -4 and 5.
InitSpread ==
  InitDecks({"strategy_card_counter"}, {"betting_flat"}, {FALSE},
            SpreadDecks, {"5", "9", "10"}, 1..SpreadGames)

SpecSpread == InitSpread /\ [][Next]_vars

\* Simulations of up to LiveGames rounds with a function that answers 'hit'
\* to every call, one that answers 'split', and strategy_mimic_dealer. The
\* program is one thread that runs on: a step that can be taken is taken.
InitLive ==
  InitWith({"always_hit", "always_split", "strategy_mimic_dealer"},
           {"betting_flat"}, {TRUE}, {"6", "10"}, 1..LiveGames)

SpecLive == InitLive /\ [][Next]_vars /\ WF_vars(Next)

\* ------------------------------------------------- hands and strategy calls

\* Hand.add_card, lines 48-49, on a hand of its own: one more card, of any
\* rank of the shoe.
add_card ==
  /\ pc = "add_card"
  /\ Len(player_hand) < MaxCards
  /\ \E r \in DOMAIN deck.cards : player_hand' = Append(player_hand, r)
  /\ UNCHANGED <<params, driver, dealer_hand, cards_seen, player_blackjack,
                 dealer_blackjack, result, profit, player_final, stack,
                 dealer, dealer_cards, ret, pc, log>>

\* One call strategy_func(player_hand, dealer_upcard, **strategy_args) on a
\* hand of two cards or more; the call and its answer are logged.
call_strategy ==
  /\ pc = "add_card"
  /\ Len(player_hand) >= 2
  /\ log' = Called(log, player_hand, strategy_args,
                   strategy_func(playing_strategy, player_hand,
                                 dealer_hand[1], strategy_args))
  /\ pc' = "called"
  /\ UNCHANGED <<params, driver, round, stack, dealer, dealer_cards, ret>>

\* A hand to be made of cards of these ranks, for a call of one of these
\* strategies with one of these upcards and keyword arguments.
InitCalls(strategies, ranks, upcards, kws) ==
  /\ playing_strategy \in strategies
  /\ num_games = 1
  /\ betting_strategy = "betting_flat"
  /\ base_bet = 10
  /\ reshuffle_each_hand = TRUE
  /\ strategy_args \in kws
  /\ deck = Deck(NumDecks, ranks)
  /\ game_results = <<>>
  /\ running_count = 0
  /\ last_result = None
  /\ current_bet = base_bet
  /\ i = 0
  /\ bet = 0
  /\ stats = NoStats
  /\ player_hand = <<>>
  /\ \E up \in upcards : dealer_hand = <<up>>
  /\ cards_seen = <<>>
  /\ player_blackjack = FALSE
  /\ dealer_blackjack = FALSE
  /\ result = None
  /\ profit = 0
  /\ player_final = None
  /\ stack = <<>>
  /\ dealer = <<>>
  /\ dealer_cards = <<>>
  /\ ret = NoRet
  /\ pc = "add_card"
  /\ log = NoLog

NextCalls ==
  \/ add_card
  \/ call_strategy

\* The hands of up to MaxCards cards of every rank, each given to a strategy
\* that looks at the hand's value only.
InitHand ==
  InitCalls({"strategy_dealer_weakness"}, RankSet, {"6", "10"}, {NoArgs})

SpecHand == InitHand /\ [][NextCalls]_vars

\* The keyword arguments of the calls of the card counter that are checked:
\* the flags, a running count and the decks that remain; or none at all.
CounterKwargs ==
  {[can_double |-> d, can_split |-> sp, running_count |-> c,
    decks_remaining |-> m] :
      d \in BOOLEAN, sp \in BOOLEAN, c \in {-2, -1, 0, 3, 4, 8}, m \in {1, 2}}
  \cup {NoArgs}

\* Calls of strategy_card_counter: hands with the totals of its deviations
\* (12, 13, 15, 16, hard and soft), the upcards of the deviations and two
\* others, true counts on both sides of -1, 0, 3 and 4.
InitCounterCalls ==
  InitCalls({"strategy_card_counter"}, {"2", "5", "6", "10", "A"},
            {"2", "3", "6", "10", "K", "A"}, CounterKwargs)

SpecCounterCalls == InitCounterCalls /\ [][NextCalls]_vars

\* The flags of a call of strategy_basic: given as true or false, or left
\* out.
BasicKwargs ==
  {[can_double |-> d, can_split |-> sp] : d \in BOOLEAN, sp \in BOOLEAN}
  \cup {NoArgs}

\* Calls of strategy_basic: hands without an ace of every total from 4 up,
\* hands with an ace, the pair of 8s, against every upcard.
InitBasicCalls ==
  InitCalls({"strategy_basic"}, {"2", "5", "8", "10", "A"}, RankSet,
            BasicKwargs)

SpecBasicCalls == InitBasicCalls /\ [][NextCalls]_vars

\* ----------------------------------------------------------------- claims

\* The rounds with a hand in play or a record to return.
InRound == pc \in {"hand", "dealer", "unwind", "return"}

\* Whether an ace of the hand is counted as 11 in the hand's value.
AceCountedAs11(cards) ==
  AdjustForAces(RawSum(cards), NumAces(cards)).num_aces > 0

\* The dealer's hands at the return of play_dealer, this round.
DealerFinals ==
  {log.settled[k].dealer : k \in 1..Len(log.settled)} \ {<<>>}

\* C1: when play_dealer finishes, the dealer's value is at least 17 and the
\* dealer has not stopped on a soft 17, a 17 with an ace counted as 11, also
\* when the hand holds several aces (A-A-5).
C1_DealerNeverStandsOnSoft17 ==
  \A d \in DealerFinals :
    /\ get_value(d) >= 17
    /\ ~(get_value(d) = 17 /\ AceCountedAs11(d))

\* The running count of the cards dealt from the shoe since it was last
\* built: +1 for each 2-6, -1 for each 10, J, Q, K, A that has left it.
RECURSIVE ShoeCount(_, _)
ShoeCount(d, rs) ==
  IF rs = {} THEN 0
  ELSE LET r == CHOOSE x \in rs : TRUE
           gone == build(d).cards[r] - d.cards[r]
       IN  (IF r \in {"2", "3", "4", "5", "6"} THEN gone
            ELSE IF r \in {"10", "J", "Q", "K", "A"} THEN -gone
            ELSE 0) + ShoeCount(d, rs \ {r})

C3_StrategyUsesDriverCount ==
  (playing_strategy = "strategy_card_counter" /\ InRound /\ log.calls > 0)
    => CounterCount(log.last_call.kw).num = log.start_count

\* C4: the true count the card counter's strategy works with is the running
\* count divided by max(1, cards left / 52): num / den = 52 * count / m with
\* m = max(52, cards left).
C4_StrategyTrueCount ==
  (playing_strategy = "strategy_card_counter" /\ InRound /\ log.calls > 0)
    => LET tc == CounterCount(log.last_call.kw)
           m == IF log.last_call.left > 52 THEN log.last_call.left ELSE 52
       IN  tc.num * m = 52 * running_count * tc.den

\* The sum over these cards of +1 for 2-6, -1 for 10, J, Q, K, A and 0 for
\* 7-9.
Tally(cards) ==
  Cardinality({k \in 1..Len(cards) : cards[k] \in {"2", "3", "4", "5", "6"}})
  - Cardinality({k \in 1..Len(cards) :
                   cards[k] \in {"10", "J", "Q", "K", "A"}})

\* C5: the running count after a round is its value at the start of the
\* round (after the reset of that start, if any) plus the tally of the
\* round's cards_seen, and no step of the round before that changes it.
C5_CountAfterRound ==
  [][IF pc = "return"
       THEN running_count' = log.start_count + Tally(Record.cards_seen)
       ELSE (pc # "loop" => running_count' = running_count)]_vars

\* A second round of the card counter has ended with a count that is not 0,
\* on a shoe that was not rebuilt at its start.
C5_Witness ==
  /\ playing_strategy = "strategy_card_counter"
  /\ pc = "loop"
  /\ i = 2
  /\ running_count # 0
  /\ DeckLen(deck) > 0

\* A hand of two cards worth 21: an ace and a card worth 10.
TwoCard21(c1, c2) ==
  \/ c1 = "A" /\ c2 \in {"10", "J", "Q", "K"}
  \/ c2 = "A" /\ c1 \in {"10", "J", "Q", "K"}

\* C6: a round whose initial deal gives a two-card 21 resolves from the four
\* initial cards alone: push and profit 0 when both have it, win and 1.5 x
\* bet when only the player has it, loss and -bet when only the dealer has
\* it; a round without one never pays 1.5 x bet. (profit is held doubled.)
C6_Blackjacks ==
  pc = "return" =>
    LET p21 == TwoCard21(Record.cards_seen[1], Record.cards_seen[2])
        d21 == TwoCard21(Record.cards_seen[3], Record.cards_seen[4])
    IN  /\ (p21 \/ d21) => (log.deals = 4 /\ Len(Record.cards_seen) = 4
                            /\ log.calls = 0)
        /\ (p21 /\ d21) => (Record.result = "push" /\ Record.profit = 0)
        /\ (p21 /\ ~d21) => (Record.result = "win"
                             /\ Record.profit = 3 * bet)
        /\ (~p21 /\ d21) => (Record.result = "loss"
                             /\ Record.profit = -2 * bet)
        /\ (~p21 /\ ~d21) => Record.profit # 3 * bet

\* Both the player and the dealer were dealt a blackjack.
C6_Witness ==
  /\ pc = "return"
  /\ TwoCard21(cards_seen[1], cards_seen[2])
  /\ TwoCard21(cards_seen[3], cards_seen[4])
  /\ result = "push"

\* C7: a hand that was neither doubled nor split and did not bust is
\* settled against the dealer's final value: +bet when the dealer is over 21
\* or the hand is higher, -bet when it is lower, 0 when equal; and the
\* record's result is win, loss or push as the profit is positive, negative
\* or zero. (profit is held doubled.)
C7_Settlement ==
  /\ \A k \in 1..Len(log.settled) :
       LET e == log.settled[k]
           pv == get_value(e.hand)
           dv == get_value(e.dealer)
       IN  (~e.doubled /\ pv <= 21) =>
             /\ e.dealer # <<>>
             /\ (dv > 21 \/ pv > dv) => e.profit = 2 * e.bet
             /\ (dv <= 21 /\ pv < dv) => e.profit = -2 * e.bet
             /\ pv = dv => e.profit = 0
  /\ (pc = "return" /\ bet > 0) =>
       /\ Record.result = "win" <=> Record.profit > 0
       /\ Record.result = "loss" <=> Record.profit < 0
       /\ Record.result = "push" <=> Record.profit = 0

\* A hand that stood was settled against an equal dealer: a push.
C7_Witness ==
  /\ pc = "return"
  /\ Len(log.settled) = 1
  /\ ~log.settled[1].doubled
  /\ log.settled[1].dealer # <<>>
  /\ get_value(log.settled[1].hand) = get_value(log.settled[1].dealer)
  /\ result = "push"

\* C8: a split happens only as the first decision of the round, on the hand
\* initially dealt, when it is a pair and the strategy answers 'split'; the
\* two hands it makes are not split again, so a round plays at most two
\* hands.
C8_SplitOnce ==
  /\ log.splits <= 1
  /\ Len(stack) <= 2
  /\ Len(log.settled) <= 2
  /\ log.splits = 1 =>
       /\ log.split_call = 1
       /\ player_hand = <<cards_seen[1], cards_seen[2]>>
       /\ player_hand[1] = player_hand[2]
       /\ strategy_func(playing_strategy, player_hand, dealer_hand[1],
                        CallArgs("can_split")) = "split"

\* A hand made by a split is itself a pair, and is played without a split.
C8_Witness ==
  /\ pc = "hand"
  /\ log.splits = 1
  /\ Len(stack) = 2
  /\ Top.at = "loop"
  /\ Len(Top.hand) = 2
  /\ Top.hand[1] = Top.hand[2]

\* C9: a double happens only as the decision on a hand of exactly two cards;
\* the doubled hand gets exactly one more card and no further decision, and
\* its profit is -2 x bet on a bust or a loss, +2 x bet on a win and 0 on a
\* push. (profit is held doubled.)
C9_Double ==
  /\ (stack # <<>> /\ Top.doubled) =>
       /\ Len(Top.hand) = 3
       /\ log.last_call.answer = "double"
       /\ log.last_call.hand = SubSeq(Top.hand, 1, 2)
       /\ Get(log.last_call.kw, "can_double", FALSE)
  /\ \A k \in 1..Len(log.settled) :
       LET e == log.settled[k]
           pv == get_value(e.hand)
           dv == get_value(e.dealer)
       IN  e.doubled =>
             /\ Len(e.hand) = 3
             /\ pv > 21 => (e.dealer = <<>> /\ e.profit = -4 * e.bet)
             /\ pv <= 21 =>
                  /\ e.dealer # <<>>
                  /\ (dv > 21 \/ pv > dv) => e.profit = 4 * e.bet
                  /\ (dv <= 21 /\ pv < dv) => e.profit = -4 * e.bet
                  /\ pv = dv => e.profit = 0

\* A doubled hand has won twice the bet.
C9_Witness ==
  /\ pc = "return"
  /\ \E k \in 1..Len(log.settled) :
       /\ log.settled[k].doubled
       /\ log.settled[k].profit = 4 * bet

\* The number of losses the results end with.
RECURSIVE LosingStreak(_)
LosingStreak(rs) ==
  IF rs = <<>> \/ rs[Len(rs)].result # "loss" THEN 0
  ELSE 1 + LosingStreak(SubSeq(rs, 1, Len(rs) - 1))

\* C10: with the martingale and a strategy that does not count, the first
\* bet is the base bet, each later bet is twice the bet before it after a
\* loss and the base bet after a win or a push: base bet x 2^(the length of
\* the losing streak before it).
C10_Martingale ==
  (pc \notin {"loop", "done"}) =>
    /\ bet = IF game_results = <<>> THEN base_bet
             ELSE IF game_results[Len(game_results)].result = "loss"
               THEN 2 * game_results[Len(game_results)].bet
             ELSE base_bet
    /\ bet = base_bet * 2 ^ LosingStreak(game_results)

\* The third round, after two losses, is played for four times the base bet.
C10_Witness ==
  /\ pc = "play_round"
  /\ Len(game_results) = 2
  /\ game_results[1].result = "loss"
  /\ game_results[2].result = "loss"
  /\ bet = 4 * base_bet

\* A shoe that holds every card: num_decks times each suit of each rank.
FullShoe(d) ==
  \A r \in DOMAIN d.cards : d.cards[r] = d.num_decks * Len(SUITS)

\* C11: with a strategy that does not count and reshuffle_each_hand, every
\* round starts from a full, freshly built shoe and a count of 0; with the
\* card counter the start of a round rebuilds the shoe (and resets the count)
\* only when no card is left, whatever reshuffle_each_hand is, and otherwise
\* leaves the shoe and the count as the round before left them.
C11_ShoeAtRoundStart ==
  [][(pc = "loop" /\ pc' = "play_round") =>
       /\ (playing_strategy # "strategy_card_counter" /\ reshuffle_each_hand)
            => (FullShoe(deck') /\ running_count' = 0)
       /\ playing_strategy = "strategy_card_counter" =>
            IF DeckLen(deck) = 0
              THEN FullShoe(deck') /\ running_count' = 0
              ELSE deck' = deck /\ running_count' = running_count]_vars

\* The second round of a card counter that was told to reshuffle each hand
\* goes on with the cards the first round left.
C11_Witness ==
  /\ playing_strategy = "strategy_card_counter"
  /\ reshuffle_each_hand
  /\ pc = "play_round"
  /\ i = 1
  /\ DeckLen(deck) > 0
  /\ ~FullShoe(deck)

\* The second round of a card counter starts with a shoe rebuilt because the
\* first round took its last card.
C11_Exhausted ==
  /\ playing_strategy = "strategy_card_counter"
  /\ pc = "play_round"
  /\ i = 1
  /\ FullShoe(deck)
  /\ log.start_count = 0

\* C12: in a round's record, dealer_hand and dealer_final_value describe the
\* dealer's hand after the dealer's draws, the hand the player's hand was
\* settled against (here: in the rounds that settled one hand against the
\* dealer).
C12_RecordHasDealerFinal ==
  (pc = "return" /\ Len(log.settled) = 1 /\ log.settled[1].dealer # <<>>) =>
    /\ Record.dealer_hand = str(log.settled[1].dealer)
    /\ Record.dealer_final_value = get_value(log.settled[1].dealer)

\* The sum of the first k numbers of a sequence.
RECURSIVE SumTo(_, _)
SumTo(f, k) == IF k = 0 THEN 0 ELSE f[k] + SumTo(f, k - 1)

\* How many of the records have this result.
Tagged(tag) ==
  Cardinality({k \in 1..Len(game_results) : game_results[k].result = tag})

\* C13: run_simulation returns num_games records, in the order of the
\* rounds, each with the bet of its round; in the summary num_games is the
\* number of records, total_profit and total_bet are the sums of the
\* records' profits and bets, the rates of win, loss and push sum to 1, and
\* min_bet <= avg_bet <= max_bet. (A rate is the pair of its numerator and
\* its denominator.)
C13_RecordsAndSummary ==
  /\ pc \notin {"loop", "done"} => Len(game_results) = i
  /\ (pc = "loop" /\ i > 0) =>
       /\ Len(game_results) = i
       /\ game_results[i].bet = bet
       /\ game_results[i].result = last_result
  /\ pc = "done" =>
       LET n == Len(game_results)
           bets == [k \in 1..n |-> game_results[k].bet]
           profits == [k \in 1..n |-> game_results[k].profit]
       IN  /\ n = num_games
           /\ stats.num_games = n
           /\ stats.total_profit = SumTo(profits, n)
           /\ stats.total_bet = SumTo(bets, n)
           /\ stats.win_rate = <<Tagged("win"), n>>
           /\ stats.loss_rate = <<Tagged("loss"), n>>
           /\ stats.push_rate = <<Tagged("push"), n>>
           /\ Tagged("win") + Tagged("loss") + Tagged("push") = n
           /\ stats.avg_bet = <<SumTo(bets, n), n>>
           /\ \A k \in 1..n : stats.min_bet <= bets[k] /\ bets[k] <= stats.max_bet
           /\ stats.min_bet * n <= stats.avg_bet[1]
           /\ stats.avg_bet[1] <= stats.max_bet * n

\* Three rounds, one won, one lost, one pushed, at different bets.
C13_Witness ==
  /\ pc = "done"
  /\ num_games = 3
  /\ stats.win_rate[1] = 1
  /\ stats.loss_rate[1] = 1
  /\ stats.push_rate[1] = 1
  /\ stats.min_bet < stats.max_bet

\* The totals of a hand with a of its aces counted as 11 and the others as
\* 1, every other card at its value.
Totals(cards) ==
  LET others == {k \in 1..Len(cards) : cards[k] # "A"}
      points == [k \in 1..Len(cards) |->
                   IF cards[k] = "A" THEN 0
                   ELSE IF cards[k] \in {"J", "Q", "K"} THEN 10
                   ELSE CHOOSE v \in 2..10 : RANKS[v - 1] = cards[k]]
      n == Len(cards) - Cardinality(others)
  IN  {SumTo(points, Len(cards)) + 11 * a + (n - a) : a \in 0..n}

\* C14: get_value is the largest total of the hand that is not above 21,
\* each ace counted as 11 or 1; when every total is above 21 it is the total
\* with every ace counted as 1.
C14_BestTotal ==
  LET ts == Totals(player_hand)
      fit == {t \in ts : t <= 21}
  IN  get_value(player_hand) =
        IF fit # {} THEN CHOOSE t \in fit : \A u \in fit : u <= t
        ELSE CHOOSE t \in ts : \A u \in ts : t <= u

\* A hand with two aces that is over 21 with both counted as 1.
C14_Witness ==
  /\ player_hand = <<"A", "K", "A", "10">>
  /\ get_value(player_hand) = 22
  /\ pc = "called"

\* C15: is_soft is true exactly when an ace of the hand is counted as 11 in
\* get_value's total and this total is at most 21, also for a hand with two
\* aces or more (A-A, A-A-5).
C15_SoftIsAceAs11 ==
  is_soft(player_hand) <=>
    (AceCountedAs11(player_hand) /\ get_value(player_hand) <= 21)

\* C16: strategy_card_counter, with TC = running count / max(1, decks
\* remaining), answers insurance when the upcard is A and TC >= 3; else
\* stand on 16 against 10 when TC >= 0; else stand on 15 against 10 when
\* TC >= 4; else hit on 13 against 2 when TC <= -1; else hit on 12 against 3
\* when TC <= 0; else stand on 12 against 2 when TC >= 3; and otherwise what
\* strategy_basic answers for the same hand, upcard and flags. (The upcard
\* 10 is the card of rank 10.)
C16_CounterDeviations ==
  (pc = "called" /\ playing_strategy = "strategy_card_counter") =>
    LET c == log.last_call
        rc == IF "running_count" \in DOMAIN c.kw
                THEN c.kw["running_count"] ELSE 0
        dr == IF "decks_remaining" \in DOMAIN c.kw
                THEN c.kw["decks_remaining"] ELSE 1
        div == IF dr > 1 THEN dr ELSE 1
        val == get_value(c.hand)
        up == c.upcard
        flags == [k \in DOMAIN c.kw \cap {"can_double", "can_split"} |->
                    c.kw[k]]
    IN  c.answer =
          IF up = "A" /\ rc >= 3 * div THEN "insurance"
          ELSE IF val = 16 /\ up = "10" /\ rc >= 0 THEN "stand"
          ELSE IF val = 15 /\ up = "10" /\ rc >= 4 * div THEN "stand"
          ELSE IF val = 13 /\ up = "2" /\ rc <= -div THEN "hit"
          ELSE IF val = 12 /\ up = "3" /\ rc <= 0 THEN "hit"
          ELSE IF val = 12 /\ up = "2" /\ rc >= 3 * div THEN "stand"
          ELSE strategy_basic(c.hand, up, flags)

\* With a running count of 3 and two decks remaining the true count is 1.5:
\* no insurance against an ace.
C16_Witness ==
  /\ pc = "called"
  /\ playing_strategy = "strategy_card_counter"
  /\ log.last_call.upcard = "A"
  /\ log.last_call.kw = [can_double |-> TRUE, can_split |-> FALSE,
                         running_count |-> 3, decks_remaining |-> 2]
  /\ log.last_call.hand = <<"10", "6">>
  /\ log.last_call.answer = "hit"

\* Whether the call was made with this flag given as true.
Flag(c, name) == name \in DOMAIN c.kw /\ c.kw[name]

\* C17: for a hand without an ace, strategy_basic called with neither
\* can_double nor can_split hits on 11 or less, stands on 12 against 4, 5
\* and 6 only, stands on 13 to 16 against 2 to 6 only, and stands on 17 or
\* more; called with can_split on a pair of 8s it answers split against
\* every upcard.
C17_BasicHardTotals ==
  (pc = "called" /\ playing_strategy = "strategy_basic") =>
    LET c == log.last_call
        val == get_value(c.hand)
        no_ace == \A k \in 1..Len(c.hand) : c.hand[k] # "A"
    IN  /\ (no_ace /\ ~Flag(c, "can_double") /\ ~Flag(c, "can_split")) =>
             c.answer =
               IF val <= 11 THEN "hit"
               ELSE IF val = 12 /\ c.upcard \in {"4", "5", "6"} THEN "stand"
               ELSE IF val = 12 THEN "hit"
               ELSE IF val <= 16 /\ c.upcard \in {"2", "3", "4", "5", "6"}
                 THEN "stand"
               ELSE IF val <= 16 THEN "hit"
               ELSE "stand"
        /\ (c.hand = <<"8", "8">> /\ Flag(c, "can_split")) =>
             c.answer = "split"

\* Without flags, 12 (10-2) is hit against a dealer's 3.
C17_Witness ==
  /\ pc = "called"
  /\ playing_strategy = "strategy_basic"
  /\ log.last_call.hand = <<"10", "2">>
  /\ log.last_call.upcard = "3"
  /\ log.last_call.kw = NoArgs
  /\ log.last_call.answer = "hit"

\* The true count at the start of a round, as a fraction: the running count
\* divided by max(1, cards left / 52).
TrueCount ==
  IF DeckLen(deck) <= 52 THEN [num |-> running_count, den |-> 1]
  ELSE [num |-> 52 * running_count, den |-> DeckLen(deck)]

\* C18: the card counter's bet of a round is, by the true count TC at the
\* start of the round: 10 when TC < 1, 25 when TC = 2, 50 when TC = 3, 100
\* when TC >= 4 and 10 for every other TC; it is one of 10, 25, 50 and 100.
C18_BetSpread ==
  (pc = "play_round" /\ playing_strategy = "strategy_card_counter") =>
    LET tc == TrueCount
    IN  /\ tc.num < tc.den => bet = 10
        /\ tc.num = 2 * tc.den => bet = 25
        /\ tc.num = 3 * tc.den => bet = 50
        /\ tc.num >= 4 * tc.den => bet = 100
        /\ (/\ tc.num >= tc.den
            /\ tc.num < 4 * tc.den
            /\ tc.num # 2 * tc.den
            /\ tc.num # 3 * tc.den) => bet = 10
        /\ bet \in {10, 25, 50, 100}

\* A round that starts with more than 52 cards and a true count between 2
\* and 3 is played for 10, less than the 25 of a true count of 2.
C18_Witness ==
  /\ pc = "play_round"
  /\ playing_strategy = "strategy_card_counter"
  /\ DeckLen(deck) > 52
  /\ 52 * running_count > 2 * DeckLen(deck)
  /\ 52 * running_count < 3 * DeckLen(deck)
  /\ bet = 10

\* Rounds that are played for 25, for 50 and for 100.
C18_Bet25 == pc = "play_round" /\ bet = 25

C18_Bet50 == pc = "play_round" /\ bet = 50

C18_Bet100 == pc = "play_round" /\ bet = 100 /\ DeckLen(deck) > 52

\* The number of cards of a full shoe: 52 x D when every rank is in it.
FullLen(d) == d.num_decks * Len(SUITS) * Cardinality(DOMAIN d.cards)

\* C19: Deck.deal never fails. From a shoe that is not empty it takes one
\* card and leaves the others; from an empty shoe it takes one card of the
\* full shoe it builds first. After any deals the shoe holds between 0 and
\* the full number less one, and a deal from it returns a card.
C19_DealNeverFails ==
  [][LET k == log'.deals - log.deals
         full == [r \in DOMAIN deck.cards |-> deck.num_decks * Len(SUITS)]
         from == IF DeckLen(deck) = 0 THEN full ELSE deck.cards
     IN  /\ k = 1 =>
              \E r \in DOMAIN deck.cards :
                /\ from[r] > 0
                /\ deck'.cards = [from EXCEPT ![r] = @ - 1]
         /\ k > 0 =>
              /\ DeckLen(deck') =
                   IF DeckLen(deck) >= k THEN DeckLen(deck) - k
                   ELSE DeckLen(deck) - k + FullLen(deck)
              /\ DeckLen(deck') >= 0
              /\ DeckLen(deck') <= FullLen(deck) - 1
         /\ IF DeckLen(deck') = 0 THEN FullLen(deck') > 0
            ELSE \E r \in DOMAIN deck'.cards : deck'.cards[r] > 0]_vars

\* A card has been dealt from a shoe that was empty: the full shoe less one.
C19_Witness ==
  /\ InRound
  /\ log.refills > 0
  /\ DeckLen(deck) = FullLen(deck) - 1

\* C20: the blackjacks are checked before the player acts. In a round where
\* the first two cards of the player or of the dealer are an ace and a card
\* worth 10, no strategy is called and no card is dealt after the first
\* four; cards_seen is these four cards, the player's two and then the
\* dealer's two, and they were dealt player, dealer, player, dealer.
C20_BlackjackBeforeAction ==
  InRound =>
    /\ Len(log.dealt) >= 4
    /\ player_hand[1] = log.dealt[1]
    /\ dealer_hand[1] = log.dealt[2]
    /\ player_hand[2] = log.dealt[3]
    /\ dealer_hand[2] = log.dealt[4]
    /\ (\/ TwoCard21(log.dealt[1], log.dealt[3])
        \/ TwoCard21(log.dealt[2], log.dealt[4])) =>
         /\ pc = "return"
         /\ log.calls = 0
         /\ Len(log.dealt) = 4
         /\ cards_seen = <<log.dealt[1], log.dealt[3],
                           log.dealt[2], log.dealt[4]>>

\* The dealer alone has a blackjack, with the ace dealt last; the player's
\* 5 and 10 were not played.
C20_Witness ==
  /\ pc = "return"
  /\ log.dealt = <<"5", "10", "10", "A">>
  /\ cards_seen = <<"5", "10", "10", "A">>
  /\ log.calls = 0
  /\ result = "loss"

\* How many cards of this rank a sequence of cards holds.
Occurs(cards, r) == Cardinality({k \in 1..Len(cards) : cards[k] = r})

\* C21: the record's cards_seen holds each card taken from the shoe in the
\* round once: as many cards as deck.deal() was called, and of each rank as
\* many as were dealt, on every path through the round.
C21_CardsSeenAreTheCardsDealt ==
  pc = "return" =>
    /\ Len(Record.cards_seen) = log.deals
    /\ Len(log.dealt) = log.deals
    /\ \A r \in RankSet :
         Occurs(Record.cards_seen, r) = Occurs(log.dealt, r)

\* A round with a split in which the dealer drew for both hands.
C21_Witness ==
  /\ pc = "return"
  /\ log.splits = 1
  /\ log.dealer_plays = 2
  /\ Len(cards_seen) >= 8
  /\ \A k \in 1..2 : Len(log.settled[k].dealer) > 2

\* C22: a hand that goes over 21 by a hit is settled at once at -bet (-2 x
\* bet when the card was that of a double), and the dealer plays no card for
\* it; without a split the round then ends with no dealer play: the dealer
\* holds two cards and only the player's cards were dealt after them.
\* (profit is held doubled.)
C22_BustSettlesAtOnce ==
  /\ pc \in {"hand", "dealer"} => get_value(Top.hand) <= 21
  /\ \A k \in 1..Len(log.settled) :
       LET e == log.settled[k]
       IN  get_value(e.hand) > 21 =>
             /\ e.dealer = <<>>
             /\ e.profit = IF e.doubled THEN -4 * e.bet ELSE -2 * e.bet
  /\ pc = "return" =>
       log.dealer_plays =
         Cardinality({k \in 1..Len(log.settled) : log.settled[k].dealer # <<>>})
  /\ (/\ pc = "return"
      /\ log.splits = 0
      /\ Len(log.settled) = 1
      /\ get_value(log.settled[1].hand) > 21) =>
       /\ log.dealer_plays = 0
       /\ Len(dealer_hand) = 2
       /\ log.deals = 2 + Len(log.settled[1].hand)
       /\ Record.result = "loss"

\* A hand of three cards that was not doubled went over 21 and lost the bet.
C22_Witness ==
  /\ pc = "return"
  /\ log.splits = 0
  /\ Len(log.settled) = 1
  /\ ~log.settled[1].doubled
  /\ get_value(log.settled[1].hand) > 21
  /\ profit = -2 * bet

\* C23: for any strategy function, also one that answers 'hit' to every
\* call, and any order of the shoe, every round that starts comes to its
\* return, the dealer's loop ends with 17 or more, and run_simulation comes
\* to its end with num_games rounds played.
C23_Terminates ==
  /\ [](\A d \in DealerFinals : get_value(d) >= 17)
  /\ [](pc = "done" => (i = num_games /\ Len(game_results) = num_games))
  /\ (pc = "play_round") ~> (pc = "return")
  /\ <>(pc = "done")

\* Two rounds of the function that always hits have been played to the end.
C23_Witness ==
  /\ pc = "done"
  /\ playing_strategy = "always_hit"
  /\ num_games = 2
  /\ Len(game_results) = 2
  /\ stats.loss_rate = <<2, 2>>

\* C24: in a round with a split the dealer's hand is played at most once,
\* and the hands of the split that are settled against the dealer are
\* settled against the same dealer hand.
C24_OneDealerPlayForASplit ==
  log.splits = 1 =>
    /\ log.dealer_plays <= 1
    /\ \A j, k \in 1..Len(log.settled) :
         (log.settled[j].dealer # <<>> /\ log.settled[k].dealer # <<>>)
           => log.settled[j].dealer = log.settled[k].dealer

\* C25: strategy_basic and strategy_card_counter look at the upcard's point
\* value only: against J, Q or K they answer what they answer to the same
\* hand, flags and count against a 10.
C25_TenValuedUpcardsAlike ==
  (pc = "called" /\ log.last_call.upcard \in {"J", "Q", "K"}) =>
    LET c == log.last_call
    IN  /\ c.answer = strategy_func(playing_strategy, c.hand, "10", c.kw)
        /\ strategy_basic(c.hand, c.upcard, c.kw)
             = strategy_basic(c.hand, "10", c.kw)

\* C26: in the loop of play_single_hand every answer but 'hit' (stand,
\* insurance, a double or a split that is not on offer) ends the player's
\* turn as a stand does: no card is dealt, the hand and the bet stay as they
\* are, nothing is won or lost for an insurance, the dealer plays next, and
\* the hand is settled against the dealer at its bet. (profit is held
\* doubled.)
C26_OtherAnswersStand ==
  [][/\ (/\ pc = "hand"
         /\ Top.at = "loop"
         /\ log'.calls = log.calls + 1
         /\ log'.last_call.answer # "hit") =>
          /\ deck' = deck
          /\ cards_seen' = cards_seen
          /\ log'.deals = log.deals
          /\ Len(stack') = Len(stack)
          /\ stack'[Len(stack')].hand = Top.hand
          /\ stack'[Len(stack')].bet = Top.bet
          /\ stack'[Len(stack')].doubled = Top.doubled
          /\ bet' = bet
          /\ profit' = profit
          /\ ret' = ret
          /\ log'.settled = log.settled
          /\ pc' = "dealer"
          /\ dealer' = dealer_hand
     /\ (pc = "dealer" /\ pc' = "unwind" /\ ~Top.doubled) =>
          LET e == log'.settled[Len(log'.settled)]
              pv == get_value(Top.hand)
              dv == get_value(dealer)
          IN  /\ Len(log'.settled) = Len(log.settled) + 1
              /\ e.hand = Top.hand
              /\ e.dealer = dealer
              /\ e.profit = IF dv > 21 \/ pv > dv THEN 2 * Top.bet
                            ELSE IF pv < dv THEN -2 * Top.bet
                            ELSE 0]_vars

\* A hand whose only answer was 'insurance' was played as a stand and won
\* the bet against the dealer.
C26_Witness ==
  /\ pc = "return"
  /\ log.last_call.answer = "insurance"
  /\ log.last_call.kw = NoArgs
  /\ Len(log.settled) = 1
  /\ log.settled[1].hand = log.last_call.hand
  /\ log.settled[1].dealer # <<>>
  /\ profit = 2 * bet

\* A hand answered 'split' in the loop, where no split is on offer, and
\* went to the dealer.
C26_SplitNotOnOffer ==
  /\ pc = "dealer"
  /\ log.last_call.answer = "split"
  /\ log.last_call.kw = NoArgs
  /\ log.splits = 0

====
